---- MODULE Spec2Model ----
(***************************************************************************)
(* hue-to-govee: the SceneController (internal/hue), its playback loops    *)
(* (runDynamicScene) and the synchronization driver goroutines             *)
(* (startSynchronization) that call SetScene / StopScene / IsActive.       *)
(*                                                                         *)
(* Every step that touches shared state (the activeScenes map under        *)
(* sc.mu, a context's Done channel, a command sent to the Govee client)    *)
(* is one atomic action; goroutines interleave between them.               *)
(***************************************************************************)
EXTENDS Integers, Sequences, FiniteSets, TLC

\* ---------------------------------------------------------------- bounds
\* Number of contexts (playback loops) SetScene may create in one run.
MaxLoops == 2
\* Largest palette (len(scene.Palette.Color)) GetActiveScene returns.
MaxPalette == 2
\* The count of commands issued after a cancellation saturates here.
AfterCap == 3

\* ------------------------------------------------------------ constants
\* The configured synchronizations (config.GetSynchronizations) and the
\* Govee device ids they may name.
Syncs == {"s1", "s2"}
Devices == {"d1", "d2"}

LoopIds == 1..MaxLoops
\* The absent map entry of activeScenes (the `ok == false` of a map read).
NoHandle == 0

VARIABLES
    goveeDevice,   \* config: sync -> GoveeDeviceId
    activeScenes,  \* sc.activeScenes: device -> cancel handle (NoHandle: no entry)
    cancelled,     \* per context: cancel() was called (ctx.Done() is closed)
    lpc,           \* per loop: position of its runDynamicScene goroutine
    ldev,          \* per loop: goveeDeviceID argument
    lpal,          \* per loop: len(scene.Palette.Color)
    lidx,          \* per loop: i of `for i, paletteColor := range`
    lafter,        \* history: device commands the loop issued since cancel()
    lerr,          \* per loop: a device command of the current step returned an error
    lby,           \* history: the caller of the StopScene that cancelled the loop
    dpc,           \* per sync: position of its driver goroutine
    call,          \* a call of one function: its name and arguments
    ret,           \* what that call returned (NoRet: it has not returned)
    turnedOff,     \* history: an earlier poll sent TurnOff, and no TurnOn since
    apc,           \* position of main's call of hue.Client.StartAutoDiscovery
    gpc,           \* position of the re-discovery goroutine it starts
    callerCtx,     \* the caller's context is cancelled
    timeoutCtx,    \* the context derived in StartAutoDiscovery: cancel() ran or it timed out
    bridgeAddress, \* hue.Client.bridgeAddress
    knownDevices,  \* govee.Client.devices: the ids in the table
    rpc,           \* position of the receive goroutine of govee.Client.Discover
    rmsg,          \* the device id of the message it is handling
    spc,           \* position of a goroutine calling sendCommand
    sdev,          \* its deviceID argument
    sres           \* what its read of the table led to

\* The scene controller, its loops and its drivers.
sceneVars == <<goveeDevice, activeScenes, cancelled, lpc, ldev, lpal, lidx,
               lafter, lerr, lby, dpc>>

\* One function call at a time, outside the scene controller.
callVars == <<call, ret, turnedOff>>

\* The Hue client's bridge discovery, and the Govee client's device table.
hueVars == <<apc, gpc, callerCtx, timeoutCtx, bridgeAddress>>

govVars == <<knownDevices, rpc, rmsg, spc, sdev, sres>>

clientVars == <<hueVars, govVars>>

vars == <<goveeDevice, activeScenes, cancelled, lpc, ldev, lpal, lidx, lafter,
          lerr, lby, dpc, call, ret, turnedOff, apc, gpc, callerCtx, timeoutCtx,
          bridgeAddress, knownDevices, rpc, rmsg, spc, sdev, sres>>

loopVars == <<lpc, ldev, lpal, lidx, lafter, lerr>>
driverVars == <<dpc>>

\* ------------------------------------------------------ SceneController
\* IsActive: _, ok := sc.activeScenes[id]; return ok
IsActive(d) == activeScenes[d] # NoHandle

\* Mutant: StopScene forgets to call cancelFunc().
StopSceneCancelsNothing(d) == {}

\* Mutant: StopScene cancels every registered loop, whatever its key.
StopSceneCancelsAll(d) == {activeScenes[e] : e \in Devices} \ {NoHandle}

\* StopScene: the cancel functions it calls.
StopSceneCancels(d) ==
    IF activeScenes[d] # NoHandle THEN {activeScenes[d]} ELSE {}

\* Mutant: StopScene forgets the delete.
StopSceneMapKeeps(d) == activeScenes

\* Mutant: StopScene empties the whole map.
StopSceneMapClears(d) == [e \in Devices |-> NoHandle]

\* StopScene: the map after `delete(sc.activeScenes, goveeDeviceID)`.
StopSceneMap(d) ==
    IF activeScenes[d] # NoHandle
    THEN [activeScenes EXCEPT ![d] = NoHandle]
    ELSE activeScenes

\* StopScene under sc.mu: one atomic step.  `by` names the caller (SetScene,
\* or the driver's static branch) for the loop whose registration it found.
StopScene(d, by) ==
    /\ cancelled' = [l \in LoopIds |-> cancelled[l] \/ l \in StopSceneCancels(d)]
    /\ activeScenes' = StopSceneMap(d)
    /\ lby' = [l \in LoopIds |-> IF l = activeScenes[d] THEN by ELSE lby[l]]

\* context.WithCancel returns a fresh context: the first unused handle.
FreshHandle ==
    CHOOSE l \in LoopIds :
        lpc[l] = "unborn" /\ \A m \in LoopIds : lpc[m] = "unborn" => l <= m

\* Mutant: SetScene does not record the cancel function.
SetSceneMapUnrecorded(d, h) == activeScenes

\* The map after `sc.activeScenes[goveeLightId] = cancel`.
SetSceneMap(d, h) == [activeScenes EXCEPT ![d] = h]

\* ------------------------------------------- driver (startSynchronization)
\* One poll of a driver goroutine: <-time.After(500ms), hueClient.GetLight
\* (an error `continue`s), then its first access to shared state.  The light
\* is an input: off, on and dynamic, or on and static.

\* !light.On.On: the else branch, which calls goveeClient.TurnOff(id) and
\* nothing else.
PollOff(s) ==
    /\ dpc[s] = "poll"
    /\ dpc' = [dpc EXCEPT ![s] = "turnOff"]
    /\ UNCHANGED <<callVars, clientVars, goveeDevice, activeScenes, cancelled, loopVars, lby>>

\* goveeClient.TurnOff(id): the command is sent (an error is logged); the
\* pass ends.
TurnOff(s) ==
    /\ dpc[s] = "turnOff"
    /\ dpc' = [dpc EXCEPT ![s] = "poll"]
    /\ UNCHANGED <<callVars, clientVars, goveeDevice, activeScenes, cancelled, loopVars, lby>>

\* A run creates at most MaxLoops contexts: a SetScene call begins only if a
\* handle is left for it and for every call already in progress.
InSetScene == {s \in Syncs : dpc[s] \in {"setSceneStop", "setSceneRegister"}}

ContextsLeft ==
    Cardinality({l \in LoopIds : lpc[l] = "unborn"}) > Cardinality(InSetScene)

\* Dynamic branch: `if sc.IsActive(id) { continue }`, then GetActiveScene,
\* whose error or nil result `continue`s; otherwise SetScene is called.
PollDynamicSkips(s) == IsActive(goveeDevice[s])

PollDynamic(s) ==
    /\ dpc[s] = "poll"
    /\ IF PollDynamicSkips(s)
       THEN UNCHANGED driverVars
       ELSE \/ UNCHANGED driverVars
            \/ /\ ContextsLeft
               /\ dpc' = [dpc EXCEPT ![s] = "setSceneStop"]
    /\ UNCHANGED <<callVars, clientVars, goveeDevice, activeScenes, cancelled, loopVars, lby>>

\* Mutant: the static branch does not look for a playing scene.
StaticBranchNeverStops(s) == FALSE

\* `if sc.IsActive(id)` of the static branch.
StaticBranchStops(s) == IsActive(goveeDevice[s])

\* Static branch: `if sc.IsActive(id) { sc.StopScene(id) }` takes the lock
\* twice; the StopScene is a step of its own.  The direct commands follow
\* it ("directStopped") or the IsActive that returned false ("direct").
PollStatic(s) ==
    /\ dpc[s] = "poll"
    /\ dpc' = [dpc EXCEPT ![s] = IF StaticBranchStops(s) THEN "stopStatic" ELSE "direct"]
    /\ UNCHANGED <<callVars, clientVars, goveeDevice, activeScenes, cancelled, loopVars, lby>>

\* SetScene, first statement: sc.StopScene(goveeLightId)
SetSceneStop(s) ==
    /\ dpc[s] = "setSceneStop"
    /\ StopScene(goveeDevice[s], "SetScene")
    /\ dpc' = [dpc EXCEPT ![s] = "setSceneRegister"]
    /\ UNCHANGED <<callVars, clientVars, goveeDevice, loopVars>>

\* SetScene: sceneCtx, cancel := context.WithCancel(...);
\* sc.mu.Lock(); sc.activeScenes[id] = cancel; sc.mu.Unlock();
\* go sc.runDynamicScene(sceneCtx, id, scene); return.
\* The new goroutine is runnable from here on ("start").  The scene argument
\* (what GetActiveScene returned: a palette of n colours) is read by no step
\* before the goroutine, so it is drawn here.
SetSceneRegister(s) ==
    /\ dpc[s] = "setSceneRegister"
    /\ \E n \in 0..MaxPalette :
          LET h == FreshHandle IN
             /\ activeScenes' = SetSceneMap(goveeDevice[s], h)
             /\ lpc' = [lpc EXCEPT ![h] = "start"]
             /\ ldev' = [ldev EXCEPT ![h] = goveeDevice[s]]
             /\ lpal' = [lpal EXCEPT ![h] = n]
    /\ dpc' = [dpc EXCEPT ![s] = "poll"]
    /\ UNCHANGED <<callVars, clientVars, goveeDevice, cancelled, lidx, lafter, lerr, lby>>

\* static branch: sc.StopScene(id) after IsActive returned true
StopStatic(s) ==
    /\ dpc[s] = "stopStatic"
    /\ StopScene(goveeDevice[s], "driver")
    /\ dpc' = [dpc EXCEPT ![s] = "directStopped"]
    /\ UNCHANGED <<callVars, clientVars, goveeDevice, loopVars>>

\* goveeClient.SetColor(id, r, g, b); goveeClient.SetBrightness(id, bri)
DirectCommands(s) ==
    /\ dpc[s] \in {"direct", "directStopped"}
    /\ dpc' = [dpc EXCEPT ![s] = "poll"]
    /\ UNCHANGED <<callVars, clientVars, goveeDevice, activeScenes, cancelled, loopVars, lby>>

\* The steps of a driver goroutine that follow its poll: calls in progress.
DriverCall(s) ==
    \/ SetSceneStop(s)
    \/ SetSceneRegister(s)
    \/ StopStatic(s)
    \/ DirectCommands(s)
    \/ TurnOff(s)

\* ------------------------------------------- playback loop (runDynamicScene)
\* A device command issued by loop l, counted when the loop's cancellation
\* had already been requested.
Issue(l) ==
    lafter' = [lafter EXCEPT ![l] = IF cancelled[l] /\ @ < AfterCap THEN @ + 1 ELSE @]

\* return: the goroutine and its locals are gone.
Return(l) ==
    /\ lpc' = [lpc EXCEPT ![l] = "done"]
    /\ lidx' = [lidx EXCEPT ![l] = 0]
    /\ lafter' = [lafter EXCEPT ![l] = 0]
    /\ lerr' = [lerr EXCEPT ![l] = FALSE]

\* Mutant: the empty-palette check is missing.
EmptyPaletteExitMissing(l) == FALSE

\* if len(scene.Palette.Color) == 0 { return }
EmptyPaletteExit(l) == lpal[l] = 0

\* The goroutine's first statement.
LoopStart(l) ==
    /\ lpc[l] = "start"
    /\ IF EmptyPaletteExit(l)
       THEN Return(l)
       ELSE /\ lpc' = [lpc EXCEPT ![l] = "top"]
            /\ UNCHANGED <<lidx, lafter, lerr>>
    /\ UNCHANGED <<callVars, clientVars, goveeDevice, activeScenes, cancelled, ldev, lpal, lby, driverVars>>

\* select { case <-ctx.Done(): ...; default: ... }: the Done case is taken
\* exactly when the channel is closed.  One definition per select.
TopDone(l) == cancelled[l]

\* Mutant: the inner select has no ctx.Done case.
InnerDoneMissing(l) == FALSE

InnerDone(l) == cancelled[l]

WaitDone(l) == cancelled[l]

\* for { select { case <-ctx.Done(): return; default: for i, c := range ... } }
LoopTop(l) ==
    /\ lpc[l] = "top"
    /\ IF TopDone(l)
       THEN Return(l)
       ELSE /\ lpc' = [lpc EXCEPT ![l] = "inner"]
            /\ lidx' = [lidx EXCEPT ![l] = 0]
            /\ UNCHANGED <<lafter, lerr>>
    /\ UNCHANGED <<callVars, clientVars, goveeDevice, activeScenes, cancelled, ldev, lpal, lby, driverVars>>

\* inner select { case <-ctx.Done(): return; default: ... }
LoopInner(l) ==
    /\ lpc[l] = "inner"
    /\ IF InnerDone(l)
       THEN Return(l)
       ELSE /\ lpc' = [lpc EXCEPT ![l] = "color"]
            /\ UNCHANGED <<lidx, lafter, lerr>>
    /\ UNCHANGED <<callVars, clientVars, goveeDevice, activeScenes, cancelled, ldev, lpal, lby, driverVars>>

\* The statement after sc.goveeClient.SetColor.
AfterSetColor(l) == "brightness"

\* Mutant: a command that returned an error is issued again.
OnCommandErrorRetries(l, next, failed) == IF failed THEN lpc[l] ELSE next

\* `if err := sc.goveeClient.SetX(...); err != nil { log.Error()... }`: the
\* error is logged and the statement after the `if` comes next, as it does
\* without an error.
OnCommandError(l, next, failed) == next

\* sc.goveeClient.SetColor(id, r, g, b): it returns an error or nil.
LoopSetColor(l) ==
    /\ lpc[l] = "color"
    /\ Issue(l)
    /\ \E failed \in BOOLEAN :
          /\ lpc' = [lpc EXCEPT ![l] = OnCommandError(l, AfterSetColor(l), failed)]
          /\ lerr' = [lerr EXCEPT ![l] = @ \/ failed]
    /\ UNCHANGED <<callVars, clientVars, goveeDevice, activeScenes, cancelled, ldev, lpal, lidx,
                   lby, driverVars>>

\* sc.goveeClient.SetBrightness(id, briByte): it returns an error or nil.
LoopSetBrightness(l) ==
    /\ lpc[l] = "brightness"
    /\ Issue(l)
    /\ \E failed \in BOOLEAN :
          /\ lpc' = [lpc EXCEPT ![l] = OnCommandError(l, "wait", failed)]
          /\ lerr' = [lerr EXCEPT ![l] = @ \/ failed]
    /\ UNCHANGED <<callVars, clientVars, goveeDevice, activeScenes, cancelled, ldev, lpal, lidx,
                   lby, driverVars>>

\* Mutant: the range skips an entry.
NextIndexSkips(i) == i + 2

\* `range` over the palette: the index after entry i.
NextIndex(i) == i + 1

\* select { case <-ctx.Done(): return; case <-time.After(timePerColor): }
\* With both channels ready Go picks either case.  After the last entry the
\* range ends and the outer `for` runs again.
LoopWait(l) ==
    /\ lpc[l] = "wait"
    /\ \/ /\ WaitDone(l)
          /\ Return(l)
       \/ /\ IF NextIndex(lidx[l]) < lpal[l]
             THEN /\ lidx' = [lidx EXCEPT ![l] = NextIndex(lidx[l])]
                  /\ lpc' = [lpc EXCEPT ![l] = "inner"]
             ELSE /\ lidx' = [lidx EXCEPT ![l] = 0]
                  /\ lpc' = [lpc EXCEPT ![l] = "top"]
          /\ lerr' = [lerr EXCEPT ![l] = FALSE]
          /\ UNCHANGED lafter
    /\ UNCHANGED <<callVars, clientVars, goveeDevice, activeScenes, cancelled, ldev, lpal, lby, driverVars>>

LoopStep(l) ==
    \/ LoopStart(l)
    \/ LoopTop(l)
    \/ LoopInner(l)
    \/ LoopSetColor(l)
    \/ LoopSetBrightness(l)
    \/ LoopWait(l)

\* ------------------------------------- the clients' background goroutines
\* main: hueClient.StartAutoDiscovery(ctx), then goveeClient.Discover(ctx),
\* then startSynchronization, whose goroutines call sendCommand.  ctx is the
\* caller's context, cancelled on SIGINT/SIGTERM.

\* What a discovery can report as the bridge's address.
Addresses == {"10.0.0.2", "10.0.0.3"}

ClientInit ==
    /\ apc = "discover"
    /\ gpc = "none"
    /\ callerCtx = FALSE
    /\ timeoutCtx = FALSE
    /\ bridgeAddress = ""
    /\ knownDevices = {}
    /\ rpc = "none"
    /\ rmsg = "d1"
    /\ spc = "idle"
    /\ sdev = "d1"
    /\ sres = "none"

\* A fatal error of the Go runtime ends the process and all its goroutines.
Alive == sres # "fatal"

\* <-c; cancel(): the caller's context is cancelled.
CallerCancel ==
    /\ Alive
    /\ ~callerCtx
    /\ callerCtx' = TRUE
    /\ UNCHANGED <<sceneVars, callVars, apc, gpc, timeoutCtx, bridgeAddress,
                   govVars>>

\* ctx, cancel := context.WithTimeout(ctx, 10*time.Second) assigns the
\* derived context to the parameter: from here on `ctx` is the derived
\* context, in the goroutine's select too.  It is done when cancel() was
\* called, when the parent is done, or when its 10 s have passed.
DiscoveryCtxDone == timeoutCtx \/ callerCtx

\* StartAutoDiscovery up to `go func()`: discoverBridge fails (the function
\* returns the error), or it reports an address, which is stored under
\* c.lock, and the goroutine is started.
StartAutoDiscovery ==
    /\ Alive
    /\ apc = "discover"
    /\ \/ /\ apc' = "failed"
          /\ timeoutCtx' = TRUE
          /\ UNCHANGED <<gpc, bridgeAddress>>
       \/ /\ ~DiscoveryCtxDone
          /\ \E a \in Addresses : bridgeAddress' = a
          /\ apc' = "spawned"
          /\ gpc' = "select"
          /\ UNCHANGED timeoutCtx
    /\ UNCHANGED <<sceneVars, callVars, callerCtx, govVars>>

\* return nil: the deferred c.lock.Unlock() and cancel() run.
StartAutoDiscoveryReturn ==
    /\ Alive
    /\ apc = "spawned"
    /\ apc' = "returned"
    /\ timeoutCtx' = TRUE
    /\ UNCHANGED <<sceneVars, callVars, gpc, callerCtx, bridgeAddress, govVars>>

\* The goroutine's select { case <-ctx.Done(): return;
\* case <-time.After(10 * time.Second): ... }.  With both channels ready Go
\* picks either case.
RediscoverySelect ==
    /\ Alive
    /\ gpc = "select"
    /\ \/ /\ DiscoveryCtxDone
          /\ gpc' = "exitedDone"
       \/ gpc' = "rediscover"
    /\ UNCHANGED <<sceneVars, callVars, apc, callerCtx, timeoutCtx, bridgeAddress,
                   govVars>>

\* ctx, cancel := context.WithTimeout(ctx, 10*time.Second);
\* bridge, err := c.discoverBridge(ctx); cancel().  discoverBridge returns
\* ctx.Err() when the context is done (Canceled through its parent,
\* DeadlineExceeded after its own 10 s), another error, or an address.  The
\* goroutine returns on a context error, continues on another error, and
\* stores an address that is not empty and differs from c.bridgeAddress.
Rediscover ==
    /\ Alive
    /\ gpc = "rediscover"
    /\ \/ /\ DiscoveryCtxDone
          /\ gpc' = "exitedCanceled"
          /\ UNCHANGED bridgeAddress
       \/ /\ gpc' = "exitedDeadline"
          /\ UNCHANGED bridgeAddress
       \/ /\ gpc' = "select"
          /\ UNCHANGED bridgeAddress
       \/ /\ ~DiscoveryCtxDone
          /\ \E a \in Addresses \cup {""} :
                bridgeAddress' = IF a # "" /\ a # bridgeAddress THEN a
                                 ELSE bridgeAddress
          /\ gpc' = "select"
    /\ UNCHANGED <<sceneVars, callVars, apc, callerCtx, timeoutCtx, govVars>>

\* goveeClient.Discover(ctx): main calls it once StartAutoDiscovery has
\* returned nil; it starts the receive goroutine.
Discover ==
    /\ Alive
    /\ apc = "returned"
    /\ rpc = "none"
    /\ rpc' = "read"
    /\ UNCHANGED <<sceneVars, callVars, hueVars, knownDevices, rmsg, spc, sdev, sres>>

\* The receive goroutine: select { case <-ctx.Done(): conn.Close(); return;
\* default: conn.ReadFromUDP }, which yields the `scan` answer of a device.
Receive ==
    /\ Alive
    /\ rpc = "read"
    /\ \/ /\ callerCtx
          /\ rpc' = "closed"
          /\ UNCHANGED rmsg
       \/ \E m \in Devices :
             /\ rmsg' = m
             /\ rpc' = "lookup"
    /\ UNCHANGED <<sceneVars, callVars, hueVars, knownDevices, spc, sdev, sres>>

\* `_, ok := c.devices[id]` in the receive goroutine: a read of the map.
ReceiveLookup ==
    /\ Alive
    /\ rpc = "lookup"
    /\ rpc' = IF rmsg \in knownDevices THEN "read" ELSE "storing"
    /\ UNCHANGED <<sceneVars, callVars, hueVars, knownDevices, rmsg, spc, sdev, sres>>

\* `c.devices[id] = ip`: the write of the map begins (no lock guards
\* c.devices: an access begins whatever another goroutine is doing) ...
ReceiveStoreBegin ==
    /\ Alive
    /\ rpc = "storing"
    /\ rpc' = "store"
    /\ UNCHANGED <<sceneVars, callVars, hueVars, knownDevices, rmsg, spc, sdev, sres>>

\* ... and ends.
ReceiveStore ==
    /\ Alive
    /\ rpc = "store"
    /\ knownDevices' = knownDevices \cup {rmsg}
    /\ rpc' = "read"
    /\ UNCHANGED <<sceneVars, callVars, hueVars, rmsg, spc, sdev, sres>>

\* A goroutine of startSynchronization or a playback loop calls sendCommand:
\* `ip, ok := c.devices[deviceID]`, a read of the map, begins ...
SendCommandBegin ==
    /\ Alive
    /\ rpc # "none"
    /\ spc = "idle"
    /\ \E d \in Devices : sdev' = d
    /\ spc' = "lookup"
    /\ sres' = "none"
    /\ UNCHANGED <<sceneVars, callVars, hueVars, knownDevices, rpc, rmsg>>

\* ... and ends.  A read that overlaps the write is a data race: it may find
\* the entry or not, or the runtime ends the process with `fatal error:
\* concurrent map read and map write`.
SendCommandLookup ==
    /\ Alive
    /\ spc = "lookup"
    /\ IF rpc = "store"
       THEN sres' \in {"sent", "notFound", "fatal"}
       ELSE sres' = IF sdev \in knownDevices THEN "sent" ELSE "notFound"
    /\ spc' = "idle"
    /\ UNCHANGED <<sceneVars, callVars, hueVars, knownDevices, rpc, rmsg, sdev>>

ClientNext ==
    \/ CallerCancel
    \/ StartAutoDiscovery
    \/ StartAutoDiscoveryReturn
    \/ RediscoverySelect
    \/ Rediscover
    \/ Discover
    \/ Receive
    \/ ReceiveLookup
    \/ ReceiveStoreBegin
    \/ ReceiveStore
    \/ SendCommandBegin
    \/ SendCommandLookup

\* ------------------------------------------------------- specification
\* NewSceneController: an empty map; the configuration pairs each
\* synchronization with a device (two may name the same device).
SceneInit ==
    /\ goveeDevice \in [Syncs -> Devices]
    /\ goveeDevice["s1"] = "d1"
    /\ activeScenes = [d \in Devices |-> NoHandle]
    /\ cancelled = [l \in LoopIds |-> FALSE]
    /\ lpc = [l \in LoopIds |-> "unborn"]
    /\ ldev = [l \in LoopIds |-> "d1"]
    /\ lpal = [l \in LoopIds |-> 0]
    /\ lidx = [l \in LoopIds |-> 0]
    /\ lafter = [l \in LoopIds |-> 0]
    /\ lerr = [l \in LoopIds |-> FALSE]
    /\ lby = [l \in LoopIds |-> "none"]
    /\ dpc = [s \in Syncs |-> "poll"]

\* No function call is under way.
NoCall == [fn |-> "none"]

NoRet == [kind |-> "none"]

Init ==
    /\ SceneInit
    /\ call = NoCall
    /\ ret = NoRet
    /\ turnedOff = FALSE
    /\ ClientInit

Next ==
    \/ \E s \in Syncs : PollOff(s)
    \/ \E s \in Syncs : PollDynamic(s)
    \/ \E s \in Syncs : PollStatic(s)
    \/ \E s \in Syncs : SetSceneStop(s)
    \/ \E s \in Syncs : SetSceneRegister(s)
    \/ \E s \in Syncs : StopStatic(s)
    \/ \E s \in Syncs : DirectCommands(s)
    \/ \E s \in Syncs : TurnOff(s)
    \/ \E l \in LoopIds : LoopStart(l)
    \/ \E l \in LoopIds : LoopTop(l)
    \/ \E l \in LoopIds : LoopInner(l)
    \/ \E l \in LoopIds : LoopSetColor(l)
    \/ \E l \in LoopIds : LoopSetBrightness(l)
    \/ \E l \in LoopIds : LoopWait(l)

Spec == Init /\ [][Next]_vars

\* Goroutines are scheduled fairly: a playback loop that can take its next
\* step eventually takes it, and so does a driver inside a call.  What a poll
\* reads from the bridge is an input and is not constrained.
LiveSpec ==
    /\ Spec
    /\ \A s \in Syncs : WF_vars(DriverCall(s))
    /\ \A l \in LoopIds : WF_vars(LoopStep(l))

\* ----------------------------------------------------- gamut geometry
\* isInGamut and correctToGamut on whole-number coordinates.  A point is
\* <<X, Y>>; a corrected point is <<xn, yn, d>>, standing for (xn/d, yn/d)
\* with d > 0, since a projection divides by the squared length of an edge.

\* denominator := (v2y-v3y)*(v1x-v3x) + (v3x-v2x)*(v1y-v3y)
gamutDenominator(gamut) ==
    (gamut[2][2] - gamut[3][2]) * (gamut[1][1] - gamut[3][1])
      + (gamut[3][1] - gamut[2][1]) * (gamut[1][2] - gamut[3][2])

\* a, b and c = 1 - a - b are fractions over the denominator; a division by
\* a zero denominator yields +Inf, -Inf or NaN, which fail `>= 0 && <= 1`.
\* a, b and c are float64 values.  A whole-number point on an edge (not at a
\* vertex, where the terms cancel exactly) also stands for the float64 points
\* within rounding of that edge: `lost` says that the coordinate which is 0
\* or 1 on the edge comes out just beyond it, as for the default gamut and
\* the point (0.15721583092546873, 0.2034720046945444), where a is about
\* -8.6e-18 and the projection onto the blue-red edge is that same point.
isInGamut(point, gamut, lost) ==
    LET den == gamutDenominator(gamut)
        an == (gamut[2][2] - gamut[3][2]) * (point[1] - gamut[3][1])
                + (gamut[3][1] - gamut[2][1]) * (point[2] - gamut[3][2])
        bn == (gamut[3][2] - gamut[1][2]) * (point[1] - gamut[3][1])
                + (gamut[1][1] - gamut[3][1]) * (point[2] - gamut[3][2])
        cn == den - an - bn
        beyond == lost /\ point \notin {gamut[1], gamut[2], gamut[3]}
        InUnit(n) == IF beyond THEN n * den > 0 /\ n * den < den * den
                     ELSE n * den >= 0 /\ n * den <= den * den
    IN  den # 0 /\ InUnit(an) /\ InUnit(bn) /\ InUnit(cn)

\* Mutant: the projection parameter is not clamped to the segment.
clampTMissing(dot, lenSq) == dot

\* t = math.Max(0, math.Min(1, t)), with t = dot/lenSq: the numerator.
clampT(dot, lenSq) == IF dot < 0 THEN 0 ELSE IF dot > lenSq THEN lenSq ELSE dot

\* findClosestPoint(p1, p2, target): the closest point of the segment.  A
\* segment of squared length below 1e-10 (here: 0) is its first end point.
findClosestPoint(p1, p2, target) ==
    LET dx == p2[1] - p1[1]
        dy == p2[2] - p1[2]
        lenSq == dx * dx + dy * dy
        tn == clampT((target[1] - p1[1]) * dx + (target[2] - p1[2]) * dy, lenSq)
    IN  IF lenSq = 0 THEN <<p1[1], p1[2], 1>>
        ELSE <<p1[1] * lenSq + tn * dx, p1[2] * lenSq + tn * dy, lenSq>>

\* The squared distance from point t to the corrected point q is
\* DistNum(q, t) / (q[3] * q[3]).
DistNum(q, t) ==
    (t[1] * q[3] - q[1]) * (t[1] * q[3] - q[1])
      + (t[2] * q[3] - q[2]) * (t[2] * q[3] - q[2])

\* dist(q, t) < dist(r, t)
Closer(q, r, t) == DistNum(q, t) * r[3] * r[3] < DistNum(r, t) * q[3] * q[3]

\* edges := {Red, Green}, {Green, Blue}, {Blue, Red}
gamutEdges(gamut) ==
    <<<<gamut[1], gamut[2]>>, <<gamut[2], gamut[3]>>, <<gamut[3], gamut[1]>>>>

\* correctToGamut: the point itself when isInGamut; otherwise the closest of
\* the three projections, a later edge winning only when strictly closer
\* (closestDist starts at 1e10, above every distance that occurs here).
correctToGamut(point, gamut, lost) ==
    IF isInGamut(point, gamut, lost) THEN <<point[1], point[2], 1>>
    ELSE LET e == gamutEdges(gamut)
             q1 == findClosestPoint(e[1][1], e[1][2], point)
             q2 == findClosestPoint(e[2][1], e[2][2], point)
             q3 == findClosestPoint(e[3][1], e[3][2], point)
             c2 == IF Closer(q2, q1, point) THEN q2 ELSE q1
         IN  IF Closer(q3, c2, point) THEN q3 ELSE c2

\* The triangles and points the geometry is called with (whole numbers, so
\* that the arithmetic stays exact): both orientations, an obtuse triangle,
\* and a degenerate (collinear) one.
MaxCoord == 4

GridGamuts ==
    { <<<<4, 0>>, <<0, 4>>, <<0, 0>>>>,
      <<<<0, 0>>, <<0, 4>>, <<4, 0>>>>,
      <<<<4, 1>>, <<1, 4>>, <<0, 0>>>>,
      <<<<0, 0>>, <<4, 0>>, <<3, 1>>>>,
      <<<<0, 0>>, <<2, 2>>, <<4, 4>>>> }

GridPoints == (0 - 1 .. MaxCoord + 1) \X (0 - 1 .. MaxCoord + 1)

CorrectToGamutCalls ==
    { [fn |-> "correctToGamut", point |-> p, gamut |-> g, lost |-> lost] :
      p \in GridPoints, g \in GridGamuts, lost \in BOOLEAN }

\* ------------------------------------------------- colour conversion
\* Numbers.  Chromaticity coordinates are counted in 1/10000 (the gamut
\* tables have four decimals); a light's dimming brightness (a float64, in
\* percent) is counted in 1/100 of a percent.  math.Pow and math.Log are not
\* evaluated: `raw` stands for the value one of the fitted curves yields (any
\* float: below 0, within 0..255, above 255), and everything the code does
\* with that value (clamp, scale, int()) is applied to it.

\* Largest brightness in percent (config: fixed_brightness is 0..100; the
\* bridge reports dimming in percent).
MaxBrightness == 100

\* int(f) of a non-negative float64 counted in 1/100: truncation.
IntOfHundredths(f) == f \div 100

\* int(f) of a float64 that is NaN: the result depends on the platform the
\* program is built for (the smallest integer on amd64, 0 on arm64).
SmallestInt == 0 - 2147483647

NaNAsInt == {0, SmallestInt}

\* func clamp(x, minF, maxF float64) float64
clamp(x, minF, maxF) == IF x < minF THEN minF ELSE IF x > maxF THEN maxF ELSE x

\* Gamut{}: the zero value.
ZeroGamut == <<<<0, 0>>, <<0, 0>>, <<0, 0>>>>

\* A gamut is <<Red, Green, Blue>>, each <<X, Y>>.
defaultGamut == <<<<6915, 3083>>, <<1700, 7000>>, <<1532, 475>>>>

gamutMap ==
    [A |-> <<<<7040, 2960>>, <<2151, 7106>>, <<1380, 800>>>>,
     B |-> <<<<6750, 3220>>, <<4090, 5180>>, <<1670, 400>>>>,
     C |-> <<<<6915, 3083>>, <<1700, 7000>>, <<1532, 475>>>>]

\* isValidGamut: not all three vertices at the origin.
isValidGamut(gamut) ==
    ~(/\ gamut[1][1] = 0 /\ gamut[1][2] = 0
      /\ gamut[2][1] = 0 /\ gamut[2][2] = 0
      /\ gamut[3][1] = 0 /\ gamut[3][2] = 0)

\* Mutant: the gamut type is looked up before the explicit gamut.
colorGamutTypeFirst(gamutType, gamut) ==
    IF gamutType \in DOMAIN gamutMap THEN gamutMap[gamutType]
    ELSE IF isValidGamut(gamut) THEN gamut
    ELSE defaultGamut

\* coordsToRGB, first statement: the gamut the conversion uses.
colorGamut(gamutType, gamut) ==
    IF isValidGamut(gamut) THEN gamut
    ELSE IF gamutType \in DOMAIN gamutMap THEN gamutMap[gamutType]
    ELSE defaultGamut

\* What a conversion returns: the three channels, and what it passed on:
\* the path taken, the Kelvin value and brightness handed to the callee, the
\* gamut used (ZeroGamut where none is), and whether the y it divided by
\* was 0.  kind "panic": a run-time panic.
Rgb(r, g, b, path, kelvin, bri, gamut) ==
    [kind |-> "rgb", rgb |-> <<r, g, b>>, path |-> path, kelvin |-> kelvin,
     bri |-> bri, gamut |-> gamut, zeroY |-> FALSE]

Panic(path, bri) ==
    [kind |-> "panic", rgb |-> <<0, 0, 0>>, path |-> path, kelvin |-> 0,
     bri |-> bri, gamut |-> ZeroGamut]

\* Coordinates are counted in 1/10000; the geometry is computed on the grid
\* of GridUnit, on which the explicit gamuts and the points of the model lie.
WholeUnit == 10000

GridUnit == 2500

OnGrid(v) == v \div GridUnit

\* A built-in gamut has every vertex above y = 0, and so has every point of
\* the triangle and of its edges: what correctToGamut returns for it has
\* y > 0.  For another gamut the corrected point is computed.
AboveZero(gamut) == \A i \in 1..3 : gamut[i][2] > 0

\* correctedCoords := correctToGamut(Coords{X: x, Y: y}, colorGamut)
correctedOnGrid(x, y, gamut) ==
    correctToGamut(<<OnGrid(x), OnGrid(y)>>,
                   <<<<OnGrid(gamut[1][1]), OnGrid(gamut[1][2])>>,
                     <<OnGrid(gamut[2][1]), OnGrid(gamut[2][2])>>,
                     <<OnGrid(gamut[3][1]), OnGrid(gamut[3][2])>>>>, FALSE)

correctedYIsZero(x, y, gamut) ==
    IF AboveZero(gamut) THEN FALSE ELSE correctedOnGrid(x, y, gamut)[2] = 0

Sign(n) == IF n > 0 THEN 1 ELSE IF n < 0 THEN 0 - 1 ELSE 0

\* float64 arithmetic on values that are not finite ("pinf", "ninf", "nan"):
\* the product with a finite value of sign s (Inf * 0 = NaN) ...
InfTimes(v, s) ==
    IF v = "nan" \/ s = 0 THEN "nan"
    ELSE IF s > 0 THEN v
    ELSE IF v = "pinf" THEN "ninf" ELSE "pinf"

\* ... and the sum of two of them (Inf - Inf = NaN); a finite term added to
\* the sum does not change it.
InfPlus(v, w) == IF v = "nan" \/ w = "nan" \/ v # w THEN "nan" ELSE v

\* int(clamp(toGamma(v)*255, 0, 255)): toGamma keeps +Inf, -Inf and NaN;
\* clamp returns 255, 0 and NaN (both comparisons with NaN are false);
\* int(NaN) is nan.
IntOfInf(v, nan) == IF v = "pinf" THEN 255 ELSE IF v = "ninf" THEN 0 ELSE nan

\* coordsToRGB: gamut choice, correctToGamut, xyY -> XYZ -> linear sRGB ->
\* gamma, then int(clamp(v*255, 0, 255)) per channel.  With y = 0 the
\* quotient Y / y is +Inf (NaN for Y = 0), X = (Y / y) * x and
\* Z = (Y / y) * z are infinite or NaN, and the channels follow from the
\* signs of the coefficients:
\*   rLin = X*3.2406 + Y*-1.5372 + Z*-0.4986
\*   gLin = X*-0.9689 + Y*1.8758 + Z*0.0415
\*   bLin = X*0.0557 + Y*-0.2040 + Z*1.0570
\* raw stands for toGamma(lin)*255 of a channel, which it is
\* while the corrected y is not 0.
coordsToRGB(x, y, bri, gamutType, gamut, raw, nan) ==
    LET colorGamutUsed == colorGamut(gamutType, gamut)
        c == clamp(raw, 0, 255)
    IN  IF correctedYIsZero(x, y, colorGamutUsed)
        THEN LET q == correctedOnGrid(x, y, colorGamutUsed)
                 quotient == InfTimes("pinf", Sign(bri))
                 X == InfTimes(quotient, Sign(q[1]))
                 Z == InfTimes(quotient, Sign(q[3] * (WholeUnit \div GridUnit) - q[1] - q[2]))
                 rLin == InfPlus(X, InfTimes(Z, 0 - 1))
                 gLin == InfPlus(InfTimes(X, 0 - 1), Z)
                 bLin == InfPlus(X, Z)
             IN  [Rgb(IntOfInf(rLin, nan), IntOfInf(gLin, nan), IntOfInf(bLin, nan),
                      "xy", 0, bri, colorGamutUsed) EXCEPT !.zeroY = TRUE]
        ELSE Rgb(c, c, c, "xy", 0, bri, colorGamutUsed)

\* ctToRGB: temp := kelvin/100; red is 255 up to temp 66 and a clamped curve
\* above; green is a clamped curve; blue is 255 from temp 66, 0 up to temp 19
\* and a clamped curve between; each channel is then int(c * bri/100).
ctToRGB(kelvin, bri, raw) ==
    LET r == IF kelvin <= 6600 THEN 255 ELSE clamp(raw, 0, 255)
        g == clamp(raw, 0, 255)
        b == IF kelvin >= 6600 THEN 255
             ELSE IF kelvin <= 1900 THEN 0
             ELSE clamp(raw, 0, 255)
    IN  Rgb((r * bri) \div 100, (g * bri) \div 100, (b * bri) \div 100,
            "ct", kelvin, bri, ZeroGamut)

\* Mutant: a light that is off is converted like one that is on.
LightOffIgnored(light) == FALSE

\* if !light.On.On { return 0, 0, 0 }
LightOff(light) == ~light.on

\* Mutant: the light's own brightness is used whatever the override.
effectiveBrightnessOfLight(light, fixedBrightness) ==
    IntOfHundredths(light.brightness)

\* brightness := int(light.Dimming.Brightness);
\* if fixedBrightness != nil { brightness = *fixedBrightness }
\* (a nil pointer is <<>>, a pointer to v is <<v>>)
effectiveBrightness(light, fixedBrightness) ==
    IF fixedBrightness # <<>> THEN fixedBrightness[1]
    ELSE IntOfHundredths(light.brightness)

\* Mutant: the grey value is rounded to the nearest integer.
greyValueRounded(brightness) == (brightness * 255 + 50) \div 100

\* brightnessValue := brightness * 255 / 100 (int arithmetic)
greyValue(brightness) == (brightness * 255) \div 100

\* kelvin := 1000000 / light.ColorTemperature.Mirek (int arithmetic; the
\* division panics when Mirek is 0)
ColorToRGB(light, fixedBrightness, raw, nan) ==
    IF LightOff(light) THEN Rgb(0, 0, 0, "off", 0, 0, ZeroGamut)
    ELSE LET brightness == effectiveBrightness(light, fixedBrightness) IN
         IF light.mirekValid
         THEN IF light.mirek = 0
              THEN Panic("ct", brightness)
              ELSE ctToRGB(1000000 \div light.mirek, brightness, raw)
         ELSE IF light.x # 0 \/ light.y # 0
         THEN coordsToRGB(light.x, light.y, brightness, light.gamutType,
                          light.gamut, raw, nan)
         ELSE LET brightnessValue == greyValue(brightness) IN
              Rgb(brightnessValue, brightnessValue, brightnessValue, "grey",
                  0, brightness, ZeroGamut)

\* The lights, overrides and curve values a call is made with.
Mireks == {0, 1, 153, 500, 1000001}

Chromaticities == {<<0, 0>>, <<0, 5000>>, <<2500, 2500>>, <<2500, 0>>}

GamutTypes == {"A", "B", "C", ""}

\* An explicit gamut a light may carry (one vertex on y = 0).
ExplicitGamut == <<<<7500, 2500>>, <<2500, 7500>>, <<2500, 0>>>>

RawValues == {0 - 1, 128, 256}

Lights ==
    [on : BOOLEAN,
     brightness : {100 * b : b \in 0..MaxBrightness} \cup {150},
     mirek : Mireks, mirekValid : BOOLEAN]

ColorToRGBCalls ==
    { [fn |-> "ColorToRGB",
       light |-> [on |-> l.on, brightness |-> l.brightness, mirek |-> l.mirek,
                  mirekValid |-> l.mirekValid, x |-> xy[1], y |-> xy[2],
                  gamutType |-> gg[1], gamut |-> gg[2]],
       fixedBrightness |-> fb, raw |-> raw, nan |-> nan] :
      l \in Lights, xy \in Chromaticities,
      gg \in {<<"B", ZeroGamut>>, <<"A", ExplicitGamut>>},
      fb \in {<<>>, <<37>>}, raw \in RawValues, nan \in NaNAsInt }

\* coordsToRGB is also called by the scene loop (types.go 236) with
\* GamutTypeC and Gamut{}.
CoordsToRGBCalls ==
    { [fn |-> "coordsToRGB", x |-> xy[1], y |-> xy[2], bri |-> bri,
       gamutType |-> gt, gamut |-> g, raw |-> raw, nan |-> nan] :
      xy \in Chromaticities, bri \in {0, 50, MaxBrightness},
      gt \in GamutTypes,
      g \in {ZeroGamut, ExplicitGamut,
             <<<<0, 0>>, <<2500, 7500>>, <<2500, 0>>>>},
      raw \in RawValues, nan \in NaNAsInt }

\* ------------------------------------------------- govee.Client commands
\* An error is its chain, outermost first (fmt.Errorf("...: %w", err) puts
\* a message in front of err); nil is the empty chain.
ErrDeviceNotFound == "device not found"

\* The failure a command meets once the device is known: none, or
\* json.Marshal, net.Dial or conn.Write returns an error.
Faults == {"none", "marshal", "dial", "write"}

\* sendCommand: what it returns and the payloads it wrote to the device.
sendCommand(devices, deviceID, cmd, data, fault) ==
    IF deviceID \in devices
    THEN IF fault = "marshal"
         THEN [kind |-> "err", err |-> <<"failed to marshal command", "json">>,
               sent |-> <<>>]
         ELSE IF fault = "dial"
         THEN [kind |-> "err", err |-> <<"failed to connect to device", "dial">>,
               sent |-> <<>>]
         ELSE IF fault = "write"
         THEN [kind |-> "err", err |-> <<"failed to send command to device", "write">>,
               sent |-> <<>>]
         ELSE [kind |-> "err", err |-> <<>>, sent |-> <<<<cmd, data>>>>]
    ELSE [kind |-> "err", err |-> <<ErrDeviceNotFound>>, sent |-> <<>>]

\* TurnOn, TurnOff, SetColor, SetBrightness: the command and data each hands
\* to sendCommand.
CommandOf(fn) ==
    IF fn \in {"TurnOn", "TurnOff"} THEN "turn"
    ELSE IF fn = "SetColor" THEN "colorwc"
    ELSE "brightness"

DataOf(fn, args) == IF fn = "TurnOn" THEN <<1>> ELSE IF fn = "TurnOff" THEN <<0>> ELSE args

\* Mutant: every error counts as device-not-found.
IsDeviceNotFoundAnyError(err) == err # <<>>

\* IsDeviceNotFound: err != nil && errors.Is(err, ErrDeviceNotFound)
IsDeviceNotFound(err) ==
    err # <<>> /\ \E i \in DOMAIN err : err[i] = ErrDeviceNotFound

CommandCalls ==
    { [fn |-> f[1], deviceID |-> d, devices |-> ds, args |-> f[2], fault |-> x] :
      f \in {<<"TurnOn", <<>>>>, <<"TurnOff", <<>>>>, <<"SetColor", <<255, 0, 10>>>>,
             <<"SetBrightness", <<50>>>>},
      d \in Devices, ds \in SUBSET Devices, x \in Faults }

\* --------------------------------------------------- per-step wait
\* runDynamicScene: baseCycleTime := 20.0; adjustedCycleTime := 20.0 / Speed;
\* timePerColor := time.Duration(adjustedCycleTime/float64(n)) * time.Second.
\* The conversion to time.Duration truncates the quotient to a whole number
\* before it is multiplied by time.Second.  Speed is counted in 1/100, the
\* result in milliseconds.
baseCycleTime == 20

MillisPerSecond == 1000

timePerColor(speed, n) ==
    ((baseCycleTime * 100) \div (speed * n)) * MillisPerSecond

Speeds == {25, 50, 100, 200, 2100}

PaletteLengths == {1, 2, 3, 7}

TimePerColorCalls ==
    { [fn |-> "timePerColor", speed |-> s, n |-> n] :
      s \in Speeds, n \in PaletteLengths }

\* ------------------------------------------- one poll of a driver
\* startSynchronization, one pass of the `for`: the calls it makes, in order,
\* given what it observes: GetLight failed; the light is on; its dynamics
\* are active; sc.IsActive; GetActiveScene returned a scene; the Govee
\* device is in the discovered table (a command for an unknown device
\* returns ErrDeviceNotFound, on which the pass `continue`s).
PollCommands(obs) ==
    IF obs.lightErr THEN <<>>
    ELSE IF obs.on
    THEN IF obs.dynamic
         THEN IF obs.active \/ ~obs.scene THEN <<>> ELSE <<"SetScene">>
         ELSE (IF obs.active THEN <<"StopScene">> ELSE <<>>)
                \o (IF obs.known THEN <<"SetColor", "SetBrightness">>
                    ELSE <<"SetColor">>)
    ELSE <<"TurnOff">>

Observations ==
    [lightErr : BOOLEAN, on : BOOLEAN, dynamic : BOOLEAN, active : BOOLEAN,
     scene : BOOLEAN, known : BOOLEAN]

PollCalls == { [fn |-> "poll", obs |-> o] : o \in Observations }

Called(cmds, c) == \E i \in DOMAIN cmds : cmds[i] = c

\* ------------------------------------------- one step of the playback loop

RECURSIVE SumOf(_)
SumOf(s) == IF Len(s) = 0 THEN 0 ELSE Head(s) + SumOf(Tail(s))

\* The brightness of a step, read from the palette entry's own dimming.
stepBrightnessOfEntry(actions, paletteColor, nan) ==
    IntOfHundredths(paletteColor.dimming)

\* brightness := 0.0; for _, action := range scene.Actions { brightness +=
\* action.Action.Dimming.Brightness }; brightness /= float64(len(scene.Actions));
\* then int(brightness).  Brightness values are counted in 1/100 percent.
\* Without actions the quotient is 0/0 = NaN and the conversion yields nan.
stepBrightness(actions, paletteColor, nan) ==
    IF Len(actions) = 0 THEN nan
    ELSE IntOfHundredths(SumOf(actions) \div Len(actions))

\* One step of runDynamicScene for one palette entry: the brightness handed
\* to coordsToRGB (with GamutTypeC and Gamut{}) and the one sent by
\* SetBrightness (briByte).
paletteStep(actions, paletteColor, nan) ==
    [kind |-> "step",
     x |-> paletteColor.x, y |-> paletteColor.y,
     gamutType |-> "C", gamut |-> ZeroGamut,
     bri |-> stepBrightness(actions, paletteColor, nan),
     briByte |-> stepBrightness(actions, paletteColor, nan)]

\* scene.Actions[i].Action.Dimming.Brightness, in 1/100 percent.
ActionBrightness == {1000, 5050, 10000}

SceneActions ==
    {<<>>} \cup { <<a>> : a \in ActionBrightness }
           \cup { <<a, b>> : a \in ActionBrightness, b \in ActionBrightness }
           \cup { <<a, b, c>> : a \in {1000}, b \in ActionBrightness,
                                c \in ActionBrightness }

\* scene.Palette.Color[i]: its XY colour and its own Dimming.
PaletteColors ==
    { [x |-> xy[1], y |-> xy[2], dimming |-> d] :
      xy \in Chromaticities, d \in {0, 3000, 10000} }

PaletteStepCalls ==
    { [fn |-> "paletteStep", actions |-> a, paletteColor |-> p, nan |-> n] :
      a \in SceneActions, p \in PaletteColors, n \in NaNAsInt }

\* -------------------------------------------- specification of the calls
\* A call is drawn, and the function is applied to it.
CallInit ==
    /\ SceneInit
    /\ goveeDevice["s2"] = "d2"
    /\ \/ call \in ColorToRGBCalls
       \/ call \in CoordsToRGBCalls
       \/ call \in CorrectToGamutCalls
       \/ call \in CommandCalls
       \/ call \in TimePerColorCalls
       \/ call \in PollCalls
       \/ call \in PaletteStepCalls
    /\ ret = NoRet
    /\ turnedOff = FALSE
    /\ ClientInit

Pending(fns) == call.fn \in fns /\ ret.kind = "none"

ColorToRGBReturn ==
    /\ Pending({"ColorToRGB"})
    /\ ret' = ColorToRGB(call.light, call.fixedBrightness, call.raw, call.nan)
    /\ UNCHANGED <<sceneVars, clientVars, call, turnedOff>>

CoordsToRGBReturn ==
    /\ Pending({"coordsToRGB"})
    /\ ret' = coordsToRGB(call.x, call.y, call.bri, call.gamutType, call.gamut,
                          call.raw, call.nan)
    /\ UNCHANGED <<sceneVars, clientVars, call, turnedOff>>

CorrectToGamutReturn ==
    /\ Pending({"correctToGamut"})
    /\ ret' = [kind |-> "point",
               point |-> correctToGamut(call.point, call.gamut, call.lost),
               inGamut |-> isInGamut(call.point, call.gamut, call.lost)]
    /\ UNCHANGED <<sceneVars, clientVars, call, turnedOff>>

CommandReturn ==
    /\ Pending({"TurnOn", "TurnOff", "SetColor", "SetBrightness"})
    /\ ret' = sendCommand(call.devices, call.deviceID, CommandOf(call.fn),
                          DataOf(call.fn, call.args), call.fault)
    /\ UNCHANGED <<sceneVars, clientVars, call, turnedOff>>

TimePerColorReturn ==
    /\ Pending({"timePerColor"})
    /\ ret' = [kind |-> "duration", ms |-> timePerColor(call.speed, call.n)]
    /\ UNCHANGED <<sceneVars, clientVars, call, turnedOff>>

PaletteStepReturn ==
    /\ Pending({"paletteStep"})
    /\ ret' = paletteStep(call.actions, call.paletteColor, call.nan)
    /\ UNCHANGED <<sceneVars, clientVars, call, turnedOff>>

\* One pass of the driver.  The device is off once a TurnOff reached it, and
\* until a TurnOn does; afterTurnOff records that it was off when the pass
\* began.
DriverPoll ==
    /\ Pending({"poll"})
    /\ LET cmds == PollCommands(call.obs) IN
          /\ ret' = [kind |-> "cmds", cmds |-> cmds, afterTurnOff |-> turnedOff]
          /\ turnedOff' = IF Called(cmds, "TurnOn") /\ call.obs.known THEN FALSE
                          ELSE IF Called(cmds, "TurnOff") /\ call.obs.known THEN TRUE
                          ELSE turnedOff
    /\ UNCHANGED <<sceneVars, clientVars, call>>

\* case <-time.After(500 * time.Millisecond): the next pass.
DriverNextPoll ==
    /\ call.fn = "poll"
    /\ ret.kind = "cmds"
    /\ \E o \in Observations : call' = [fn |-> "poll", obs |-> o]
    /\ ret' = NoRet
    /\ UNCHANGED <<sceneVars, clientVars, turnedOff>>

CallNext ==
    \/ ColorToRGBReturn
    \/ CoordsToRGBReturn
    \/ CorrectToGamutReturn
    \/ CommandReturn
    \/ TimePerColorReturn
    \/ PaletteStepReturn
    \/ DriverPoll
    \/ DriverNextPoll

CallSpec == CallInit /\ [][CallNext]_vars

\* The clients' goroutines, with no scene and no call under way.
ClientSpecInit ==
    /\ SceneInit
    /\ goveeDevice["s2"] = "d2"
    /\ call = NoCall
    /\ ret = NoRet
    /\ turnedOff = FALSE
    /\ ClientInit

ClientSpec == ClientSpecInit /\ [][ClientNext]_vars

\* ------------------------------------------------------------- claims
\* A playback goroutine exists from the `go` statement until it returns.
Live(l) == lpc[l] \notin {"unborn", "done"}

LiveLoops(d) == {l \in LoopIds : ldev[l] = d /\ Live(l)}

\* The loop whose cancel function is registered for d, if any.
Registered(l) == lpc[l] # "unborn" /\ activeScenes[ldev[l]] = l

\* Steps of a driver, as seen from outside.
SetSceneStopStep(s) == dpc[s] = "setSceneStop" /\ dpc'[s] = "setSceneRegister"

SetSceneRegisterStep(s) == dpc[s] = "setSceneRegister" /\ dpc'[s] = "poll"

StopStaticStep(s) == dpc[s] = "stopStatic" /\ dpc'[s] = "directStopped"

\* A step of loop l.
LoopMoves(l) == lpc'[l] # lpc[l] \/ lidx'[l] # lidx[l]

\* C1 (as stated): at most one playback goroutine exists per device: the loop
\* that a SetScene call found registered for the device has terminated
\* whenever another loop of that device exists, so the two never overlap.
C1_AtMostOneLoopPerDevice ==
    \A old, new \in LoopIds :
        (old # new /\ ldev[old] = ldev[new] /\ lby[old] = "SetScene" /\ Live(new))
            => ~Live(old)

\* C1 (amended): when SetScene finds a loop registered for the device, it
\* requests that loop's cancellation and removes its registration before the
\* new loop is registered and started, and it does not wait for the old loop
\* (the old loop's position is unchanged by the step); a loop whose
\* cancellation was requested is never registered again, and the loop the
\* register step starts is the one registered.
C1_OldLoopCancelledNotAwaited ==
    [][ /\ \A s \in Syncs :
              SetSceneStopStep(s) =>
                 LET old == activeScenes[goveeDevice[s]] IN
                    /\ activeScenes'[goveeDevice[s]] = NoHandle
                    /\ old # NoHandle => cancelled'[old] /\ lpc'[old] = lpc[old]
        /\ \A s \in Syncs :
              SetSceneRegisterStep(s) =>
                 LET new == activeScenes'[goveeDevice[s]] IN
                    /\ new # NoHandle
                    /\ lpc[new] = "unborn" /\ lpc'[new] = "start"
                    /\ ~cancelled'[new]
        /\ \A l \in LoopIds : cancelled'[l] => activeScenes'[ldev'[l]] # l
      ]_vars

\* C1 witness: the old loop of a device, cancelled by SetScene, is still
\* running while the new loop of the same device runs.
C1_Witness ==
    \E old, new \in LoopIds :
        /\ old # new /\ ldev[old] = ldev[new]
        /\ lby[old] = "SetScene" /\ cancelled[old] /\ lpc[old] = "brightness"
        /\ Registered(new) /\ lpc[new] = "color"

\* C2: after a SetScene that replaced the registration of an earlier SetScene
\* for the same device (palettes not empty), the device has one registration,
\* the new loop's (IsActive is true), and the first loop eventually terminates;
\* a terminated loop issues nothing more.
C2_SecondSetSceneReplacesFirst ==
    /\ \A l \in LoopIds : (lby[l] = "SetScene" /\ lpal[l] > 0) ~> (lpc[l] = "done")
    /\ [][ /\ \A s \in Syncs :
                 SetSceneRegisterStep(s) =>
                    /\ IsActive(goveeDevice[s])'
                    /\ \A l \in LoopIds :
                          lby[l] = "SetScene" => activeScenes'[goveeDevice[s]] # l
           /\ \A l \in LoopIds : lpc[l] = "done" => lpc'[l] = "done"
         ]_vars

\* C2 witness: the first loop, replaced by a second SetScene, has issued
\* commands and terminated; the second loop is registered and playing.
C2_Witness ==
    \E first, second \in LoopIds :
        /\ first # second /\ ldev[first] = ldev[second]
        /\ lby[first] = "SetScene" /\ lpal[first] > 0 /\ lpc[first] = "done"
        /\ Registered(second) /\ lpal[second] > 0 /\ lpc[second] = "wait"
        /\ IsActive(ldev[second])

\* C3: no loop is orphaned: every playback loop that exists and whose
\* cancellation has not been requested has its cancel function in activeScenes.
C3_NoOrphanedLoop ==
    \A l \in LoopIds : Live(l) /\ ~cancelled[l] => Registered(l)

\* C4: after SetScene with an empty palette the loop terminates on its own
\* and with that IsActive(device) is false, no StopScene being needed: once
\* the loop has returned (its last step), the device is not registered to it.
C4_EmptyPaletteInactiveAfterReturn ==
    \A l \in LoopIds : lpal[l] = 0 /\ lpc[l] = "done" => ~Registered(l)

\* C5: a loop started for an empty palette terminates at its first statement:
\* it is never at the loop top, a select, a device command or the wait.
C5_EmptyPaletteNoCommand ==
    \A l \in LoopIds : lpal[l] = 0 => lpc[l] \in {"unborn", "start", "done"}

\* C5 witness: a loop with an empty palette has started and terminated.
C5_Witness ==
    \E l \in LoopIds : lpal[l] = 0 /\ lpc[l] = "done" /\ lafter[l] = 0

\* C6: a registration exists only while its playback loop is running: the
\* loop of a registered handle has not exited.
C6_RegisteredOnlyWhileRunning ==
    \A d \in Devices : IsActive(d) => lpc[activeScenes[d]] # "done"

\* C7: StopScene for a device with no registration changes nothing: no cancel
\* function is called, the map and every loop are as before; and after any
\* StopScene the device has no registration, so a repeated call is this case.
C7_StopSceneNoOp ==
    [][ \A s \in Syncs :
           (SetSceneStopStep(s) \/ StopStaticStep(s)) =>
              /\ ~IsActive(goveeDevice[s])'
              /\ ~IsActive(goveeDevice[s]) =>
                    UNCHANGED <<activeScenes, cancelled, loopVars, lby>>
      ]_vars

\* C7 witness: StopScene is about to run for a device without a registration
\* while a loop of the other device is registered and playing.
C7_Witness ==
    \E s \in Syncs, l \in LoopIds :
        /\ dpc[s] = "setSceneStop" /\ ~IsActive(goveeDevice[s])
        /\ ldev[l] # goveeDevice[s] /\ Registered(l) /\ lpc[l] = "wait"

\* C8: SetScene requests the old loop's cancellation in its first step, before
\* the step that registers the new cancel function; that step leaves the
\* device registered (IsActive true) with the handle of the loop it starts;
\* and neither step waits: each is enabled whatever the old loop is doing.
C8_SetSceneOrder ==
    /\ [](\A s \in Syncs :
             /\ dpc[s] = "setSceneStop" => ENABLED SetSceneStop(s)
             /\ dpc[s] = "setSceneRegister" => ENABLED SetSceneRegister(s))
    /\ [][ \A s \in Syncs :
              /\ SetSceneStopStep(s) =>
                    /\ lpc' = lpc
                    /\ IsActive(goveeDevice[s]) =>
                          cancelled'[activeScenes[goveeDevice[s]]]
              /\ (dpc[s] = "setSceneStop" /\ dpc'[s] # dpc[s]) => SetSceneStopStep(s)
              /\ SetSceneRegisterStep(s) =>
                    /\ IsActive(goveeDevice[s])'
                    /\ lpc'[activeScenes'[goveeDevice[s]]] = "start"
                    /\ ldev'[activeScenes'[goveeDevice[s]]] = goveeDevice[s]
                    /\ cancelled' = cancelled
         ]_vars

\* C8 witness: SetScene has requested the cancellation of a running loop and
\* is about to register the new one while the old loop is still running.
C8_Witness ==
    \E s \in Syncs, old \in LoopIds :
        /\ dpc[s] = "setSceneRegister"
        /\ ldev[old] = goveeDevice[s] /\ lby[old] = "SetScene"
        /\ cancelled[old] /\ lpc[old] = "wait" /\ lafter[old] = 0

\* C9 (as stated): once its cancellation is requested a loop issues at most
\* one further device command.
C9_AtMostOneCommandAfterCancel ==
    \A l \in LoopIds : lafter[l] <= 1

\* C9 (amended): the loop checks for cancellation at the loop top, before
\* each SetColor and at the wait, not between SetColor and SetBrightness:
\* once its cancellation is requested it issues at most the commands of the
\* step in progress (SetColor and SetBrightness: two) and is never again about
\* to issue a SetColor after it issued a command; at a select it returns, and
\* at the wait it can return at once, whatever the timer.
C9_AtMostOneStepAfterCancel ==
    /\ [](\A l \in LoopIds :
             /\ lafter[l] <= 2
             /\ cancelled[l] /\ lpc[l] = "color" => lafter[l] = 0
             /\ cancelled[l] /\ lpc[l] = "brightness" => lafter[l] <= 1
             /\ cancelled[l] /\ lpc[l] = "wait" =>
                   ENABLED (LoopWait(l) /\ lpc'[l] = "done"))
    /\ [][ \A l \in LoopIds :
              (cancelled[l] /\ lpc[l] \in {"top", "inner"} /\ LoopMoves(l))
                 => lpc'[l] = "done"
         ]_vars

\* C9 witness: a loop cancelled between its inner select and SetColor has
\* issued both commands of the step and is at the wait.
C9_Witness ==
    \E l \in LoopIds : cancelled[l] /\ lpc[l] = "wait" /\ lafter[l] = 2

\* C10: a loop plays the palette in order and cyclically: SetColor, then
\* SetBrightness for the same entry, then the wait; from the wait it returns or
\* goes on to the next entry (after the last one to the loop top and entry 0);
\* a select leads to the entry's SetColor or to the return.
C10_PaletteOrder ==
    [][ \A l \in LoopIds : LoopMoves(l) =>
           /\ lpc[l] = "top" =>
                 lpc'[l] = "done" \/ (lpc'[l] = "inner" /\ lidx'[l] = 0)
           /\ lpc[l] = "inner" =>
                 lpc'[l] = "done" \/ (lpc'[l] = "color" /\ lidx'[l] = lidx[l])
           /\ lpc[l] = "color" => lpc'[l] = "brightness" /\ lidx'[l] = lidx[l]
           /\ lpc[l] = "brightness" => lpc'[l] = "wait" /\ lidx'[l] = lidx[l]
           /\ lpc[l] = "wait" =>
                 \/ lpc'[l] = "done"
                 \/ /\ lidx[l] + 1 < lpal[l]
                    /\ lpc'[l] = "inner" /\ lidx'[l] = lidx[l] + 1
                 \/ /\ lidx[l] + 1 = lpal[l]
                    /\ lpc'[l] = "top" /\ lidx'[l] = 0
           /\ lpc'[l] \in {"inner", "color", "brightness", "wait"} => lidx'[l] < lpal[l]
      ]_vars

\* C10 witness: a loop with more than one palette entry is about to issue the
\* SetColor of its last entry.
C10_Witness ==
    \E l \in LoopIds :
        lpal[l] > 1 /\ lpc[l] = "color" /\ lidx[l] = lpal[l] - 1 /\ ~cancelled[l]

\* C11: devices do not interfere: a StopScene(d) or SetScene(d, ...) step
\* changes no other device's registration (so no other IsActive result),
\* requests no cancellation but that of the loop registered for d, and moves or
\* alters no loop of another device; after a StopScene(d) step IsActive(d) is
\* false.
C11_NoInterference ==
    [][ \A s \in Syncs :
           LET d == goveeDevice[s] IN
           (SetSceneStopStep(s) \/ StopStaticStep(s) \/ SetSceneRegisterStep(s)) =>
              /\ \A e \in Devices \ {d} : activeScenes'[e] = activeScenes[e]
              /\ \A l \in LoopIds :
                    (cancelled'[l] /\ ~cancelled[l]) => l = activeScenes[d]
              /\ \A l \in LoopIds :
                    (lpc[l] # "unborn" /\ ldev[l] # d) =>
                       /\ cancelled'[l] = cancelled[l]
                       /\ lpc'[l] = lpc[l] /\ lidx'[l] = lidx[l]
                       /\ ldev'[l] = ldev[l] /\ lpal'[l] = lpal[l]
              /\ (SetSceneStopStep(s) \/ StopStaticStep(s)) => ~IsActive(d)'
      ]_vars

\* C11 witness: the driver's StopScene has cancelled the registered loop of
\* its device while the loop of the other device is registered, not cancelled
\* and playing.
C11_Witness ==
    \E s \in Syncs, l, m \in LoopIds :
        /\ dpc[s] = "directStopped" /\ ~IsActive(goveeDevice[s])
        /\ ldev[l] = goveeDevice[s] /\ lby[l] = "driver" /\ Live(l)
        /\ ldev[m] # goveeDevice[s] /\ Registered(m) /\ ~cancelled[m]
        /\ lpc[m] = "wait"

\* A call of fn has returned.
Returned(fn) == call.fn = fn /\ ret.kind # "none"

\* C12: for a light that is off ColorToRGB returns (0, 0, 0) whatever the
\* light's other fields and the override are, and it returns before it
\* looks at any of them (so not even a Mirek of 0 makes it panic).
C12_OffIsBlack ==
    (Returned("ColorToRGB") /\ ~call.light.on) =>
        /\ ret.kind = "rgb"
        /\ ret.rgb = <<0, 0, 0>>
        /\ ret.path = "off"

\* An off light at full brightness with a valid Mirek of 0, a colour point
\* and an override has been converted.
C12_Witness ==
    /\ Returned("ColorToRGB")
    /\ ~call.light.on
    /\ call.light.mirekValid /\ call.light.mirek = 0
    /\ call.light.brightness = 100 * MaxBrightness
    /\ call.light.x # 0
    /\ call.fixedBrightness # <<>>
    /\ ret.rgb = <<0, 0, 0>>

\* C13: for a light that is on, ColorToRGB takes the colour-temperature path
\* when mirek_valid is set, whether or not an xy point is present; otherwise
\* the xy path when the xy point is not (0, 0); otherwise the greyscale
\* path.  On each path the brightness used is the override when there is
\* one, and else the light's reported brightness (its whole percents).
C13_PathPriority ==
    (Returned("ColorToRGB") /\ call.light.on) =>
        /\ ret.path = (IF call.light.mirekValid THEN "ct"
                       ELSE IF <<call.light.x, call.light.y>> # <<0, 0>> THEN "xy"
                       ELSE "grey")
        /\ IF call.fixedBrightness # <<>>
           THEN ret.bri = call.fixedBrightness[1]
           ELSE /\ 100 * ret.bri <= call.light.brightness
                /\ call.light.brightness < 100 * (ret.bri + 1)

\* A light that is on with a valid Mirek and an xy point, and an override
\* that differs from its own brightness, has been converted on the
\* colour-temperature path.
C13_Witness ==
    /\ Returned("ColorToRGB")
    /\ call.light.on
    /\ call.light.mirekValid /\ call.light.mirek = 153
    /\ call.light.x # 0
    /\ call.fixedBrightness = <<37>>
    /\ call.light.brightness = 100 * MaxBrightness
    /\ ret.kind = "rgb" /\ ret.path = "ct" /\ ret.bri = 37

\* The greyscale case: the light is on, has no valid Mirek and no xy point,
\* and its effective brightness b is a whole number in 0..100.
GreyCase(b) ==
    /\ Returned("ColorToRGB")
    /\ call.light.on /\ ~call.light.mirekValid
    /\ call.light.x = 0 /\ call.light.y = 0
    /\ ret.kind = "rgb" /\ ret.bri = b
    /\ b \in 0..MaxBrightness

\* v = round(b * 255 / 100): v is the integer nearest to b * 255 / 100.
IsRounded(v, b) == 200 * v - 100 <= 510 * b /\ 510 * b < 200 * v + 100

\* v = floor(b * 255 / 100)
IsFloor(v, b) == 100 * v <= 255 * b /\ 255 * b < 100 * (v + 1)

\* C14 (as stated): in the greyscale case all three channels are
\* round(brightness * 255 / 100), e.g. 3 for brightness 1.
C14_GreyIsRounded ==
    \A b \in 0..MaxBrightness :
        GreyCase(b) => \A i \in 1..3 : IsRounded(ret.rgb[i], b)

\* C14 (amended): in the greyscale case all three channels are
\* brightness * 255 / 100 rounded down, e.g. 2 for brightness 1, 127 for
\* brightness 50, 255 for brightness 100.
C14_GreyIsFloor ==
    \A b \in 0..MaxBrightness :
        GreyCase(b) => \A i \in 1..3 : IsFloor(ret.rgb[i], b)

\* Brightness 1 (from the light, no override) has been converted to grey 2.
C14_Witness ==
    /\ GreyCase(1)
    /\ call.fixedBrightness = <<>>
    /\ ret.rgb = <<2, 2, 2>>

\* C15: for a light that is on with mirek_valid set and Mirek m, the
\* temperature conversion is handed 1000000 / m Kelvin (the integer
\* quotient), and with a brightness in 0..100 ColorToRGB returns three
\* channels that all lie in 0..255.
C15_KelvinAndChannelRange ==
    (/\ Returned("ColorToRGB")
     /\ call.light.on /\ call.light.mirekValid
     /\ ret.bri \in 0..MaxBrightness) =>
        /\ ret.kind = "rgb"
        /\ ret.kelvin * call.light.mirek <= 1000000
        /\ 1000000 < (ret.kelvin + 1) * call.light.mirek
        /\ \A i \in 1..3 : ret.rgb[i] \in 0..255

\* A conversion on the xy path has returned: coordsToRGB called directly
\* (as the scene loop does), or through ColorToRGB for a light with an xy
\* point.  XyGamutType and XyGamut are the gamut type and the explicit gamut
\* it was given.
XyReturned ==
    \/ Returned("coordsToRGB")
    \/ Returned("ColorToRGB") /\ ret.path = "xy"

XyGamutType == IF call.fn = "coordsToRGB" THEN call.gamutType ELSE call.light.gamutType

XyGamut == IF call.fn = "coordsToRGB" THEN call.gamut ELSE call.light.gamut

\* C16: the xy conversion uses the explicit gamut when one of its three
\* vertices is not at the origin; otherwise the built-in triangle of gamut
\* type A, B or C; otherwise the default triangle, which is triangle C.  An
\* all-zero explicit gamut with type B gives triangle B, and Gamut{} with
\* type C gives triangle C.
C16_GamutPriority ==
    XyReturned =>
        /\ (\E i \in 1..3 : XyGamut[i] # <<0, 0>>) => ret.gamut = XyGamut
        /\ (XyGamut = ZeroGamut /\ XyGamutType = "A") =>
               ret.gamut = <<<<7040, 2960>>, <<2151, 7106>>, <<1380, 800>>>>
        /\ (XyGamut = ZeroGamut /\ XyGamutType = "B") =>
               ret.gamut = <<<<6750, 3220>>, <<4090, 5180>>, <<1670, 400>>>>
        /\ (XyGamut = ZeroGamut /\ XyGamutType \notin {"A", "B"}) =>
               ret.gamut = <<<<6915, 3083>>, <<1700, 7000>>, <<1532, 475>>>>

\* A light with an all-zero explicit gamut and type B has been converted
\* with triangle B.
C16_Witness ==
    /\ Returned("ColorToRGB")
    /\ call.light.gamut = ZeroGamut /\ call.light.gamutType = "B"
    /\ ret.path = "xy"
    /\ ret.gamut = gamutMap["B"]

\* Plane geometry the gamut claims are stated in.  A rational point is
\* <<xn, yn, d>>; Rat(p) is the whole-number point p as one.
Rat(p) == <<p[1], p[2], 1>>

SamePoint(q, s) == q[1] * s[3] = s[1] * q[3] /\ q[2] * s[3] = s[2] * q[3]

\* Twice the signed area of triangle a, b, c.
Cross(a, b, c) == (b[1] - a[1]) * (c[2] - a[2]) - (b[2] - a[2]) * (c[1] - a[1])

NonDegenerate(g) == Cross(g[1], g[2], g[3]) # 0

\* p is strictly inside triangle g / inside it or on its boundary.
StrictlyInside(p, g) ==
    LET o == Cross(g[1], g[2], g[3]) IN
        /\ Cross(g[1], g[2], p) * o > 0
        /\ Cross(g[2], g[3], p) * o > 0
        /\ Cross(g[3], g[1], p) * o > 0

InsideOrOn(p, g) ==
    LET o == Cross(g[1], g[2], g[3]) IN
        /\ Cross(g[1], g[2], p) * o >= 0
        /\ Cross(g[2], g[3], p) * o >= 0
        /\ Cross(g[3], g[1], p) * o >= 0

Between(v, a, b, d) == (a * d <= v /\ v <= b * d) \/ (b * d <= v /\ v <= a * d)

\* The rational point q lies on the segment from a to b.
OnSegment(q, a, b) ==
    /\ (b[1] - a[1]) * (q[2] - a[2] * q[3]) = (b[2] - a[2]) * (q[1] - a[1] * q[3])
    /\ Between(q[1], a[1], b[1], q[3])
    /\ Between(q[2], a[2], b[2], q[3])

\* Squared distance of rational points q and s, times (q[3] * s[3])^2.
SqDist(q, s) ==
    (q[1] * s[3] - s[1] * q[3]) * (q[1] * s[3] - s[1] * q[3])
      + (q[2] * s[3] - s[2] * q[3]) * (q[2] * s[3] - s[2] * q[3])

\* dist(p, q) <= dist(p, s) and dist(p, q) < dist(p, s), p a whole point.
NoFarther(p, q, s) == SqDist(Rat(p), q) * s[3] * s[3] <= SqDist(Rat(p), s) * q[3] * q[3]

Nearer(p, q, s) == SqDist(Rat(p), q) * s[3] * s[3] < SqDist(Rat(p), s) * q[3] * q[3]

\* The points a + (k/K)(b - a), k = 0..K, of the segment from a to b, K its
\* squared length: the foot of every perpendicular from a whole point is one.
SegmentPoints(a, b) ==
    LET K == (b[1] - a[1]) * (b[1] - a[1]) + (b[2] - a[2]) * (b[2] - a[2]) IN
        { <<a[1] * K + k * (b[1] - a[1]), a[2] * K + k * (b[2] - a[2]), K>> :
          k \in 0..K }

Edge(g, i) == IF i = 1 THEN <<g[1], g[2]>> ELSE IF i = 2 THEN <<g[2], g[3]>> ELSE <<g[3], g[1]>>

\* q is the point of edge i of g closest to p, no point of any edge is
\* closer, and every point of an earlier edge is farther.
ClosestOnFirstEdge(q, p, g, i) ==
    /\ OnSegment(q, Edge(g, i)[1], Edge(g, i)[2])
    /\ \A j \in 1..3 : \A s \in SegmentPoints(Edge(g, j)[1], Edge(g, j)[2]) :
           IF j < i THEN Nearer(p, q, s) ELSE NoFarther(p, q, s)

\* The first edge of g, in the order red-green, green-blue, blue-red, that
\* holds a point at the least distance from p.
FirstClosestEdge(p, g) ==
    CHOOSE i \in 1..3 :
        \E q \in SegmentPoints(Edge(g, i)[1], Edge(g, i)[2]) :
            ClosestOnFirstEdge(q, p, g, i)

\* correctToGamut has returned for a non-degenerate gamut.
Corrected == Returned("correctToGamut") /\ NonDegenerate(call.gamut)

\* When isInGamut is false the result is the closest point of the first
\* closest edge.
OutsideIsProjected ==
    (Corrected /\ ~ret.inGamut) =>
        ClosestOnFirstEdge(ret.point, call.point, call.gamut,
                           FirstClosestEdge(call.point, call.gamut))

CommandReturned ==
    /\ call.fn \in {"TurnOn", "TurnOff", "SetColor", "SetBrightness"}
    /\ ret.kind = "err"

\* C18: a command for a device that is not in the table of discovered
\* devices sends nothing and returns the device-not-found error, and
\* IsDeviceNotFound is true of what a command returned exactly in that case:
\* it is false of nil and of every marshal, dial and write failure.
C18_DeviceNotFound ==
    CommandReturned =>
        /\ call.deviceID \notin call.devices =>
               ret.sent = <<>> /\ ret.err = <<"device not found">>
        /\ IsDeviceNotFound(ret.err) <=> call.deviceID \notin call.devices
        /\ ret.sent # <<>> => ret.err = <<>>

\* TurnOff for a device that is not in a non-empty table has returned the
\* device-not-found error and sent nothing.
C18_Witness ==
    /\ CommandReturned
    /\ call.fn = "TurnOff"
    /\ call.devices # {} /\ call.deviceID \notin call.devices
    /\ ret.sent = <<>>
    /\ IsDeviceNotFound(ret.err)

\* A pass of the driver has found the Hue light on while the Govee device
\* was off because an earlier pass sent it TurnOff.
OnAfterTurnOff ==
    /\ Returned("poll")
    /\ ret.afterTurnOff
    /\ ~call.obs.lightErr /\ call.obs.on /\ call.obs.known

\* C19: whenever a pass of the driver finds the Hue light on after the driver
\* has sent TurnOff to the paired Govee device, that pass calls TurnOn for
\* the device.
C19_TurnOnAfterTurnOff == OnAfterTurnOff => Called(ret.cmds, "TurnOn")

\* C20: for a speed above 0 and a palette of n >= 1 entries, n times the wait
\* of one step is the cycle time of 20 / speed seconds.  In milliseconds,
\* with speed in 1/100: n * wait * speed = 2000000, short by less than one
\* millisecond per step (20/3 s is no whole number of milliseconds).
C20_WaitsFillCycle ==
    (Returned("timePerColor") /\ call.speed > 0 /\ call.n >= 1) =>
        LET total == call.n * ret.ms * call.speed IN
            /\ total <= 2000000
            /\ 2000000 - total < call.n * call.speed

\* C21: in a step of the playback loop of a scene with at least one action,
\* the brightness used for the colour conversion and the brightness sent by
\* SetBrightness are both the arithmetic mean of the scene's action
\* brightness values, truncated to an integer; the value is a function of the
\* actions alone, so it is the same for every palette entry and does not
\* depend on the entry's own dimming.
C21_StepBrightnessIsActionMean ==
    (Returned("paletteStep") /\ Len(call.actions) >= 1) =>
        LET n == Len(call.actions)
            mean == SumOf(call.actions) \div n
        IN  /\ ret.bri = mean \div 100
            /\ ret.briByte = mean \div 100

\* C21 witness: a step of a scene with two actions of different brightness,
\* for a palette entry whose own dimming differs from the mean.
C21_Witness ==
    /\ Returned("paletteStep")
    /\ call.actions = <<1000, 5050>>
    /\ call.paletteColor.dimming = 10000
    /\ ret.bri = 30 /\ ret.briByte = 30

\* C22: a SetColor or SetBrightness that fails in the playback loop is a
\* local event: the loop does not issue the command again, it goes on to the
\* SetBrightness of the same step, then to the step's wait, and from the wait
\* to the next palette entry (or to its return when its context is done);
\* the failing step changes no registration and cancels no context.
C22_CommandFailureIsLocal ==
    [][ \A l \in LoopIds :
           /\ (LoopMoves(l) /\ lerr'[l] /\ lpc[l] \in {"color", "brightness"}) =>
                 /\ lpc[l] = "color" => lpc'[l] = "brightness"
                 /\ lpc[l] = "brightness" => lpc'[l] = "wait"
                 /\ lidx'[l] = lidx[l]
                 /\ activeScenes' = activeScenes
                 /\ cancelled' = cancelled
           /\ (lerr[l] /\ lerr'[l] # lerr[l]) =>
                 /\ lpc[l] = "wait"
                 /\ \/ lpc'[l] = "done" /\ cancelled[l]
                    \/ /\ lidx[l] + 1 < lpal[l]
                       /\ lpc'[l] = "inner" /\ lidx'[l] = lidx[l] + 1
                    \/ /\ lidx[l] + 1 = lpal[l]
                       /\ lpc'[l] = "top" /\ lidx'[l] = 0
                 /\ activeScenes' = activeScenes
           /\ lerr'[l] # lerr[l] => LoopMoves(l)
      ]_vars

\* C22 witness: a registered loop, a command of whose first of two palette
\* entries returned an error, has reached the wait of that step.
C22_Witness ==
    \E l \in LoopIds :
        /\ Registered(l) /\ ~cancelled[l]
        /\ lpal[l] = 2 /\ lidx[l] = 0 /\ lpc[l] = "wait"
        /\ lerr[l]

\* C23: ColorToRGB never raises a fault that ends the process: for every
\* light, one with MirekValid set and a Mirek of 0 included, the call returns
\* an RGB result.
C23_ColorToRGBNeverPanics ==
    Returned("ColorToRGB") => ret.kind # "panic"

\* C24: the conversion of an xy colour guards its division by y: when the
\* y of the gamut-corrected point is 0, coordsToRGB returns black or an
\* error.
C24_ZeroYIsGuarded ==
    (Returned("coordsToRGB") /\ ret.zeroY) =>
        ret.kind = "error" \/ ret.rgb = <<0, 0, 0>>

\* A step of driver s that ends a pass whose static branch called StopScene.
DirectAfterStopStep(s) == dpc[s] = "directStopped" /\ dpc'[s] = "poll"

\* The TurnOff of driver s, which ends a pass that found the light off.
TurnOffStep(s) == dpc[s] = "turnOff" /\ dpc'[s] = "poll"

\* No other synchronization is paired with the device of s.
OwnDevice(s) == \A t \in Syncs \ {s} : goveeDevice[t] # goveeDevice[s]

\* C25: the driver starts playback only from Idle: a SetScene call never
\* finds a loop registered for its device, so no running loop is ever
\* cancelled by SetScene and started again, in every interleaving, two
\* synchronizations that share one device included.
C25_RunningLoopNeverRestarted ==
    \A l \in LoopIds : lby[l] # "SetScene"

\* C26 (as stated): when a pass of the driver finds the light on and not
\* dynamic while a registration exists for the paired device, it calls
\* StopScene before its direct commands, and after that pass
\* IsActive(device) is false.
C26_InactiveAfterStaticPass ==
    [][ \A s \in Syncs :
           DirectAfterStopStep(s) => ~IsActive(goveeDevice[s])' ]_vars

\* C26 (amended): a pass that finds the light on and not dynamic calls
\* StopScene exactly when IsActive(device) returned true, and before its
\* direct commands; right after that StopScene IsActive(device) is false;
\* until the pass ends only the SetScene of another synchronization paired
\* with the same device registers a loop for it, so that after the pass
\* IsActive(device) is false when no other synchronization shares the device.
C26_StopBeforeDirectCommands ==
    [][ \A s \in Syncs :
           LET d == goveeDevice[s] IN
           /\ (dpc[s] = "poll" /\ dpc'[s] \in {"stopStatic", "direct", "directStopped"}) =>
                 /\ IsActive(d) => dpc'[s] = "stopStatic"
                 /\ ~IsActive(d) => dpc'[s] = "direct"
           /\ (dpc[s] = "stopStatic" /\ dpc'[s] # dpc[s]) =>
                 dpc'[s] = "directStopped" /\ ~IsActive(d)'
           /\ (dpc[s] = "directStopped" /\ dpc'[s] # dpc[s]) => dpc'[s] = "poll"
           /\ (dpc[s] = "directStopped" /\ ~IsActive(d) /\ IsActive(d)') =>
                 \E t \in Syncs \ {s} : goveeDevice[t] = d /\ SetSceneRegisterStep(t)
           /\ (DirectAfterStopStep(s) /\ OwnDevice(s)) => ~IsActive(d)'
      ]_vars

\* C26 witness: the static branch of a driver has stopped the playing loop
\* of its device, which no other synchronization shares, and is about to
\* send its direct commands.
C26_Witness ==
    \E s \in Syncs, l \in LoopIds :
        /\ dpc[s] = "directStopped" /\ OwnDevice(s)
        /\ ldev[l] = goveeDevice[s] /\ lby[l] = "driver" /\ cancelled[l]
        /\ lpc[l] \in {"color", "brightness", "wait"}
        /\ ~IsActive(goveeDevice[s])

\* C27: when a pass of the driver finds the light off while a loop is
\* registered for the paired device, playback is stopped: after that pass no
\* registration remains for the device (stated for a device that no other
\* synchronization shares).
C27_OffStopsPlayback ==
    [][ \A s \in Syncs :
           (TurnOffStep(s) /\ OwnDevice(s)) => ~IsActive(goveeDevice[s])' ]_vars

\* C28: the accesses to the Govee client's table of discovered devices are
\* free of races: the read of the table by sendCommand never overlaps the
\* write of the table by the receive goroutine of Discover.
C28_TableAccessesDoNotOverlap ==
    ~(spc = "lookup" /\ rpc = "store")

\* C29: once StartAutoDiscovery has returned nil, the re-discovery goroutine
\* does not exit while the caller's context is live, unless a discovery ran
\* into its own deadline: it leaves its select through ctx.Done(), or its
\* discovery with a cancelled context, only after the caller has cancelled.
C29_RediscoveryRunsWhileCallerLive ==
    (apc = "returned" /\ gpc \in {"exitedDone", "exitedCanceled"}) => callerCtx

====
